---- MODULE Spec2Model ----
(***************************************************************************)
(* PyProf: the NVTX marker producer (pyprof/nvtx/nvmarker.py) and the      *)
(* reduction calculators Mean, Sum and Norm (pyprof/prof/reduction.py).    *)
(*                                                                         *)
(* Python values are modelled as records of one shape (PyVal below), the   *)
(* text of a marker as the tree of literal forms that str() prints, and    *)
(* eval() as the evaluation of those forms.                                *)
(***************************************************************************)
EXTENDS Integers, Sequences, FiniteSets, TLC

VARIABLES
    pc,       \* position of the profiling pipeline / the interpreter
    call,     \* the intercepted call: mod, op, args, kwargs
    cls,      \* the calculator class the record is handed to
    sub,      \* d.sub of the trace row
    text,     \* the string argMarker returned (d.argMarker[0])
    marker,   \* the value eval() gave for the text
    obj,      \* the calculator instance, or the exception __init__ raised
    out,      \* the metrics read from the instance
    nvtx,     \* the thread's stack of open NVTX ranges
    stack,    \* the python call stack: frames of the patched functions
    raising,  \* an exception is propagating out of the top frame
    reported, \* cudnn_benchmark_disabled_reported
    benchmark,\* torch.backends.cudnn.benchmark
    gen,      \* the generator new_iter returned
    ncalls,   \* calls of patched functions made so far (names the frames)
    pushed    \* cudnn_benchmark_disabled ranges pushed so far

pvars == <<pc, call, cls, sub, text, marker, obj, out>>
nvars == <<nvtx, stack, raising, reported, benchmark, gen, ncalls, pushed>>
vars == <<pvars, nvars>>

----------------------------------------------------------------------------
(* Bounds of the model.                                                    *)

MaxPos == 2     \* positional arguments of a profiled call
MaxKw == 2      \* keyword arguments of a profiled call
MaxSub == 1     \* largest subLevel of a trace row
MaxCalls == 4   \* calls of patched functions in one run
MaxDepth == 3   \* nesting of patched functions
MaxItems == 2   \* items the underlying DataLoader iterator yields

----------------------------------------------------------------------------
(* Python values.                                                          *)

PyVal(py, s, n, elems, dtype, data) ==
    [py |-> py, s |-> s, n |-> n, elems |-> elems, dtype |-> dtype, data |-> data]

IntV(n) == PyVal("int", "", n, <<>>, <<>>, <<>>)
FloatV(s) == PyVal("float", s, 0, <<>>, <<>>, <<>>)
BoolV(s) == PyVal("bool", s, 0, <<>>, <<>>, <<>>)
NoneV == PyVal("NoneType", "None", 0, <<>>, <<>>, <<>>)
StrV(s) == PyVal("str", s, 0, <<>>, <<>>, <<>>)
ListV(elems) == PyVal("list", "", 0, elems, <<>>, <<>>)
TupleV(elems) == PyVal("tuple", "", 0, elems, <<>>, <<>>)

Ints(dims) == [k \in 1..Len(dims) |-> IntV(dims[k])]

\* A torch.Tensor: its size(), its dtype as the dotted path str() prints,
\* and, for a zero-dimensional tensor, the python number item() gives.
TensorV(dims, dtype, data) == PyVal("Tensor", "", 0, Ints(dims), dtype, data)
\* A numpy.ndarray: its shape and its dtype.
NdarrayV(dims, dtype) == PyVal("ndarray", "", 0, Ints(dims), dtype, <<>>)

Last(seq) == seq[Len(seq)]

----------------------------------------------------------------------------
(* argMarker: the record of one call, as a python dict.                    *)

\* str(arg.dtype).split(".")[-1]
dtypeName(arg) == StrV(Last(arg.dtype))

\* A descriptor is a python dict: a function from its keys to values.
tensor(arg, name) ==
    [k \in {"name", "type", "shape", "dtype"} |->
        CASE k = "name" -> StrV(name)
          [] k = "type" -> StrV("tensor")
          [] k = "shape" -> TupleV(arg.elems)
          [] k = "dtype" -> dtypeName(arg)]

ndarray(arg, name) ==
    [k \in {"name", "type", "shape", "dtype"} |->
        CASE k = "name" -> StrV(name)
          [] k = "type" -> StrV("ndarray")
          [] k = "shape" -> TupleV(arg.elems)
          [] k = "dtype" -> dtypeName(arg)]

seq(arg, name) ==
    [k \in {"name", "type", "value"} |->
        CASE k = "name" -> StrV(name)
          [] k = "type" -> IF arg.py = "list" THEN StrV("list") ELSE StrV("tuple")
          [] k = "value" -> IF arg.py = "list" THEN arg ELSE TupleV(arg.elems)]

scalar(arg, name) ==
    [k \in {"name", "type", "value"} |->
        CASE k = "name" -> StrV(name)
          [] k = "type" -> StrV(arg.py)
          [] k = "value" ->
                IF arg.py = "float" /\ arg.s = "inf" THEN StrV("inf")
                ELSE IF arg.py = "float" /\ arg.s = "-inf" THEN StrV("-inf")
                ELSE IF arg.py = "float" /\ arg.s = "nan" THEN StrV("nan")
                ELSE arg]

isscalar(arg) == arg.py \in {"int", "float", "bool", "NoneType", "str"}

issequence(arg) == arg.py \in {"list", "tuple"}

\* The descriptors foo appends to cadena['args'] for the sequence args.
RECURSIVE foo(_, _)
foo(args, name) ==
    IF args = <<>> THEN <<>>
    ELSE LET arg == Head(args)
             here ==
                IF arg.py = "Tensor"
                THEN IF Len(arg.elems) = 0
                     THEN <<scalar(arg.data[1], name)>>
                     ELSE <<tensor(arg, name)>>
                ELSE IF arg.py = "ndarray" THEN <<ndarray(arg, name)>>
                ELSE IF isscalar(arg) THEN <<scalar(arg, name)>>
                ELSE IF issequence(arg)
                THEN IF Len(arg.elems) = 0 \/ isscalar(arg.elems[1])
                     THEN <<seq(arg, name)>>
                     ELSE foo(arg.elems, name)
                ELSE <<>>
         IN  here \o foo(Tail(args), name)

RECURSIVE fooKwargs(_)
fooKwargs(kwargs) ==
    IF kwargs = <<>> THEN <<>>
    ELSE foo(<<Head(kwargs)[2]>>, Head(kwargs)[1]) \o fooKwargs(Tail(kwargs))

\* cadena, before it is printed.
cadena(mod, op, args, kwargs) ==
    [mod |-> StrV(mod), op |-> StrV(op), args |-> foo(args, "") \o fooKwargs(kwargs)]

----------------------------------------------------------------------------
(* str() of the record and eval() of the text.  The text is the tree of    *)
(* literal forms str() prints: a quoted string, a number, a bare name, a   *)
(* list or tuple display, or the call-like repr of a tensor or array.      *)

Form(f, s, n, items) == [f |-> f, s |-> s, n |-> n, items |-> items]

RECURSIVE Repr(_)
Repr(v) ==
    CASE v.py = "int" -> Form("intlit", "", v.n, <<>>)
      [] v.py = "float" ->
            IF v.s \in {"inf", "-inf", "nan"}
            THEN Form("name", v.s, 0, <<>>)
            ELSE Form("floatlit", v.s, 0, <<>>)
      [] v.py = "bool" -> Form("name", v.s, 0, <<>>)
      [] v.py = "NoneType" -> Form("name", "None", 0, <<>>)
      [] v.py = "str" -> Form("strlit", v.s, 0, <<>>)
      [] v.py = "list" -> Form("list", "", 0, [k \in 1..Len(v.elems) |-> Repr(v.elems[k])])
      [] v.py = "tuple" -> Form("tuple", "", 0, [k \in 1..Len(v.elems) |-> Repr(v.elems[k])])
      [] v.py = "Tensor" -> Form("call", "tensor", 0, <<>>)
      [] v.py = "ndarray" -> Form("call", "array", 0, <<>>)

\* str(cadena)
StrDict(d) ==
    [mod |-> Repr(d.mod), op |-> Repr(d.op),
     args |-> [k \in 1..Len(d.args) |-> [key \in DOMAIN d.args[k] |-> Repr(d.args[k][key])]]]

Raise(exc) == PyVal("raise", exc, 0, <<>>, <<>>, <<>>)

Raised(seqv) == {k \in 1..Len(seqv) : seqv[k].py = "raise"}

Min(S) == CHOOSE x \in S : \A y \in S : x <= y

RECURSIVE Eval(_)
Eval(form) ==
    CASE form.f = "intlit" -> IntV(form.n)
      [] form.f = "floatlit" -> FloatV(form.s)
      [] form.f = "strlit" -> StrV(form.s)
      [] form.f = "name" ->
            IF form.s \in {"True", "False"} THEN BoolV(form.s)
            ELSE IF form.s = "None" THEN NoneV
            ELSE Raise("NameError")
      [] form.f = "call" -> Raise("NameError")
      [] form.f \in {"list", "tuple"} ->
            LET vals == [k \in 1..Len(form.items) |-> Eval(form.items[k])]
            IN  IF Raised(vals) # {} THEN vals[Min(Raised(vals))]
                ELSE IF form.f = "list" THEN ListV(vals) ELSE TupleV(vals)

\* eval(d.argMarker[0]): the dict, or the exception the evaluation raised.
EvalDict(t) ==
    LET args == [k \in 1..Len(t.args) |-> [key \in DOMAIN t.args[k] |-> Eval(t.args[k][key])]]
        bad == {k \in 1..Len(args) : \E key \in DOMAIN args[k] : args[k][key].py = "raise"}
    IN  IF bad # {}
        THEN [err |-> "NameError", mod |-> NoneV, op |-> NoneV, args |-> <<>>]
        ELSE [err |-> "none", mod |-> Eval(t.mod), op |-> Eval(t.op), args |-> args]


----------------------------------------------------------------------------
(* Utility: element count and byte width.                                  *)

RECURSIVE Product(_)
Product(dims) == IF dims = <<>> THEN 1 ELSE Head(dims).n * Product(Tail(dims))

\* Utility.numElems(shape)
numElems(shape) == Product(shape.elems)

ByteWidth ==
    [t \in {"float32", "float16", "int64", "bool"} |->
        CASE t = "float32" -> 4
          [] t = "float16" -> 2
          [] t = "int64" -> 8
          [] t = "bool" -> 1]

\* Utility.typeToBytes(t): the width, or the failure for a dtype not in the table.
typeToBytes(t) ==
    IF t.py = "str" /\ t.s \in DOMAIN ByteWidth
    THEN [ok |-> TRUE, v |-> ByteWidth[t.s]]
    ELSE [ok |-> FALSE, v |-> 0]

----------------------------------------------------------------------------
(* The calculators of reduction.py.                                        *)

Instance(c, m, shape, type, s) ==
    [err |-> "none", cls |-> c, mod_ |-> m.mod, op_ |-> m.op,
     shape |-> shape, type |-> type, sub |-> s]

Failed(c, exc) ==
    [err |-> exc, cls |-> c, mod_ |-> NoneV, op_ |-> NoneV,
     shape |-> NoneV, type |-> NoneV, sub |-> 0]

Named(args, name) == {k \in 1..Len(args) : args[k]["name"] = StrV(name)}

\* Mean.__init__: the operand is the first of the unnamed arguments.
MeanOperand(args) ==
    IF Cardinality(Named(args, "")) > 2 THEN [err |-> "AssertionError", k |-> 0]
    ELSE IF Named(args, "") = {} THEN [err |-> "IndexError", k |-> 0]
    ELSE [err |-> "none", k |-> Min(Named(args, ""))]

MeanInit(m, s) ==
    IF m.err # "none" THEN Failed("Mean", m.err)
    ELSE IF m.mod \notin {StrV("torch"), StrV("Tensor")} THEN Failed("Mean", "AssertionError")
    ELSE IF m.op # StrV("mean") THEN Failed("Mean", "AssertionError")
    ELSE LET sel == MeanOperand(m.args) IN
         IF sel.err # "none" THEN Failed("Mean", sel.err)
         ELSE LET i == m.args[sel.k] IN
              IF "shape" \in DOMAIN i
              THEN Instance("Mean", m, i["shape"], i["dtype"], s)
              ELSE IF "value" \notin DOMAIN i THEN Failed("Mean", "AssertionError")
              ELSE Instance("Mean", m, TupleV(<<IntV(1)>>), i["type"], s)

\* Sum.__init__: args[0] when it is unnamed, else the argument named "input".
SumOperand(args) ==
    IF Len(args) < 1 THEN [err |-> "AssertionError", k |-> 0]
    ELSE IF args[1]["name"] = StrV("") THEN [err |-> "none", k |-> 1]
    ELSE IF Named(args, "input") = {} THEN [err |-> "IndexError", k |-> 0]
    ELSE [err |-> "none", k |-> Min(Named(args, "input"))]

\* Sum.__init__ without the assert on op
SumInit_NoOpAssert(m, s) ==
    IF m.err # "none" THEN Failed("Sum", m.err)
    ELSE IF m.mod \notin {StrV("torch"), StrV("Tensor")} THEN Failed("Sum", "AssertionError")
    ELSE LET sel == SumOperand(m.args) IN
         IF sel.err # "none" THEN Failed("Sum", sel.err)
         ELSE LET i == m.args[sel.k] IN
              IF "shape" \notin DOMAIN i THEN Failed("Sum", "KeyError")
              ELSE Instance("Sum", m, i["shape"], i["dtype"], s)

SumInit(m, s) ==
    IF m.err # "none" THEN Failed("Sum", m.err)
    ELSE IF m.mod \notin {StrV("torch"), StrV("Tensor")} THEN Failed("Sum", "AssertionError")
    ELSE IF m.op # StrV("sum") THEN Failed("Sum", "AssertionError")
    ELSE LET sel == SumOperand(m.args) IN
         IF sel.err # "none" THEN Failed("Sum", sel.err)
         ELSE LET i == m.args[sel.k] IN
              IF "shape" \notin DOMAIN i THEN Failed("Sum", "KeyError")
              ELSE Instance("Sum", m, i["shape"], i["dtype"], s)

\* Norm.__init__: args[0], whatever its name.
NormOperand(args) ==
    IF Len(args) < 1 THEN [err |-> "IndexError", k |-> 0]
    ELSE [err |-> "none", k |-> 1]

NormInit(m, s) ==
    IF m.err # "none" THEN Failed("Norm", m.err)
    ELSE IF m.mod \notin {StrV("torch"), StrV("Tensor")} THEN Failed("Norm", "AssertionError")
    ELSE IF m.op # StrV("norm") THEN Failed("Norm", "AssertionError")
    ELSE LET sel == NormOperand(m.args) IN
         IF sel.err # "none" THEN Failed("Norm", sel.err)
         ELSE LET i == m.args[sel.k] IN
              IF "shape" \notin DOMAIN i THEN Failed("Norm", "KeyError")
              ELSE Instance("Norm", m, i["shape"], i["dtype"], s)

Value(n) == [ok |-> TRUE, v |-> n]
Error == [ok |-> FALSE, v |-> 0]

MeanElems(self) == numElems(self.shape)

MeanBytes(self) ==
    IF self.sub = 0
    THEN IF typeToBytes(self.type).ok
         THEN Value(MeanElems(self) * typeToBytes(self.type).v)
         ELSE Error
    ELSE Value(0)

\* Mean.flops without the divide
MeanFlops_NoDivide(self) == IF self.sub = 0 THEN Value(MeanElems(self)) ELSE Value(0)

MeanFlops(self) == IF self.sub = 0 THEN Value(MeanElems(self) + 1) ELSE Value(0)

SumElems(self) == numElems(self.shape)

\* Sum.flops suppressed for a nested call, as Mean.flops is
SumFlops_Suppressed(self) == IF self.sub = 0 THEN Value(SumElems(self)) ELSE Value(0)

SumFlops(self) == Value(SumElems(self))

\* b is computed before sub is looked at
SumBytes(self) ==
    IF ~typeToBytes(self.type).ok THEN Error
    ELSE IF self.sub = 0 THEN Value(SumElems(self) * typeToBytes(self.type).v)
    ELSE Value(0)

NormElems(self) == numElems(self.shape)

\* Norm.bytes returning b whatever sub is
NormBytes_NotSuppressed(self) ==
    IF ~typeToBytes(self.type).ok THEN Error
    ELSE Value(NormElems(self) * typeToBytes(self.type).v)

NormBytes(self) ==
    IF ~typeToBytes(self.type).ok THEN Error
    ELSE IF self.sub = 0 THEN Value(NormElems(self) * typeToBytes(self.type).v)
    ELSE Value(0)

NormFlops(self) == IF self.sub = 0 THEN Value(2 * NormElems(self) + 1) ELSE Value(0)

Operand(c, args) ==
    CASE c = "Mean" -> MeanOperand(args)
      [] c = "Sum" -> SumOperand(args)
      [] c = "Norm" -> NormOperand(args)

New(c, m, s) ==
    CASE c = "Mean" -> MeanInit(m, s)
      [] c = "Sum" -> SumInit(m, s)
      [] c = "Norm" -> NormInit(m, s)

Metrics(self) ==
    CASE self.cls = "Mean" ->
            [elems |-> MeanElems(self), bytes |-> MeanBytes(self), flops |-> MeanFlops(self)]
      [] self.cls = "Sum" ->
            [elems |-> SumElems(self), bytes |-> SumBytes(self), flops |-> SumFlops(self)]
      [] self.cls = "Norm" ->
            [elems |-> NormElems(self), bytes |-> NormBytes(self), flops |-> NormFlops(self)]

----------------------------------------------------------------------------
(* The calls the model profiles.                                           *)

F32 == <<"torch", "float32">>
F16 == <<"torch", "float16">>

T48 == TensorV(<<4, 8>>, F32, <<>>)
T10 == TensorV(<<10>>, F16, <<>>)
T0 == TensorV(<<>>, F32, <<FloatV("2.5")>>)

Classes == {"Mean", "Sum", "Norm"}
Mods == {"torch", "Tensor", "torch.nn.functional"}
Ops == {"mean", "sum", "norm"}
OwnOp == [c \in Classes |-> CASE c = "Mean" -> "mean" [] c = "Sum" -> "sum" [] c = "Norm" -> "norm"]

SeqsUpTo(S, n) == UNION {[1..k -> S] : k \in 0..n}

Distinct(kw) == \A a, b \in 1..Len(kw) : a # b => kw[a][1] # kw[b][1]

Kwargs(names, values, n) == {kw \in SeqsUpTo(names \X values, n) : Distinct(kw)}

\* operands and a dim of a reduction
Values == {T48, T10, T0, IntV(1)}
KwNames == {"input", "out"}

NoText == [mod |-> Repr(NoneV), op |-> Repr(NoneV), args |-> <<>>]
NoMarker == [err |-> "unset", mod |-> NoneV, op |-> NoneV, args |-> <<>>]
NoObj == Failed("", "unset")
NoOut == [elems |-> 0, bytes |-> Error, flops |-> Error]

NoGen == [state |-> "none", id |-> 0, d0 |-> 0, items |-> 0]

\* nvmarker.py as imported: nothing called yet, the flag False (line 381)
NvtxInit ==
    /\ nvtx = <<>>
    /\ stack = <<>>
    /\ raising = FALSE
    /\ reported = FALSE
    /\ benchmark \in BOOLEAN
    /\ gen = NoGen
    /\ ncalls = 0
    /\ pushed = 0

Init ==
    /\ pc = "call"
    /\ call \in [mod : Mods, op : Ops, args : SeqsUpTo(Values, MaxPos),
                 kwargs : Kwargs(KwNames, Values, MaxKw)]
    /\ cls \in Classes
    /\ sub \in 0..MaxSub
    /\ text = NoText
    /\ marker = NoMarker
    /\ obj = NoObj
    /\ out = NoOut
    /\ NvtxInit /\ benchmark = FALSE

\* wrapper_func: cadena = argMarker(mod, fn_name, args, kwargs)
ArgMarker ==
    /\ pc = "call"
    /\ text' = StrDict(cadena(call.mod, call.op, call.args, call.kwargs))
    /\ pc' = "marked"
    /\ UNCHANGED <<call, cls, sub, marker, obj, out, nvars>>

\* the calculator is constructed from the trace row: cls(d)
Construct ==
    /\ pc = "marked"
    /\ marker' = EvalDict(text)
    /\ obj' = New(cls, EvalDict(text), sub)
    /\ pc' = "built"
    /\ UNCHANGED <<call, cls, sub, text, out, nvars>>

\* elems(), bytes() and flops() of the instance
ReadMetrics ==
    /\ pc = "built"
    /\ obj.err = "none"
    /\ out' = Metrics(obj)
    /\ pc' = "read"
    /\ UNCHANGED <<call, cls, sub, text, marker, obj, nvars>>

Next == ArgMarker \/ Construct \/ ReadMetrics

Spec == Init /\ [][Next]_vars

----------------------------------------------------------------------------
(* Properties of the calculators.                                          *)

\* The descriptor the constructed calculator took as its operand.
OperandDesc == marker.args[Operand(cls, marker.args).k]

\* The dimensions of a recorded shape, and their product.
Dims(shape) == [k \in 1..Len(shape.elems) |-> shape.elems[k].n]

RECURSIVE ProdOf(_)
ProdOf(S) == IF Len(S) = 0 THEN 1 ELSE ProdOf(SubSeq(S, 1, Len(S) - 1)) * S[Len(S)]

TensorOperand ==
    /\ pc = "read"
    /\ "shape" \in DOMAIN OperandDesc
    /\ OperandDesc["dtype"].s \in DOMAIN ByteWidth

\* C1: a Sum built from a record whose operand has shape S and a dtype of the
\* byte-width table reports elems = product of S, flops = elems at every
\* subLevel, and bytes = elems * width at subLevel 0 and 0 otherwise.
C1_SumMetrics ==
    (TensorOperand /\ cls = "Sum") =>
        LET S == Dims(OperandDesc["shape"])
            w == ByteWidth[OperandDesc["dtype"].s]
        IN  /\ out.elems = ProdOf(S)
            /\ out.flops = Value(ProdOf(S))
            /\ out.bytes = IF sub = 0 THEN Value(ProdOf(S) * w) ELSE Value(0)
            /\ (S = <<4, 8>> /\ w = 4 /\ sub = 1) =>
                    (out.flops = Value(32) /\ out.bytes = Value(0))

C1_Witness ==
    /\ pc = "read" /\ cls = "Sum" /\ sub # 0
    /\ out = [elems |-> 32, bytes |-> Value(0), flops |-> Value(32)]

\* C2: a Mean built from such a record reports elems = product of S; at
\* subLevel 0 bytes = elems * width and flops = elems + 1; at any other
\* subLevel bytes and flops are both 0.
C2_MeanMetrics ==
    (TensorOperand /\ cls = "Mean") =>
        LET S == Dims(OperandDesc["shape"])
            w == ByteWidth[OperandDesc["dtype"].s]
        IN  /\ out.elems = ProdOf(S)
            /\ sub = 0 => (out.bytes = Value(ProdOf(S) * w) /\ out.flops = Value(ProdOf(S) + 1))
            /\ sub # 0 => (out.bytes = Value(0) /\ out.flops = Value(0))
            /\ (S = <<4, 8>> /\ w = 4 /\ sub = 0) =>
                    (out.elems = 32 /\ out.bytes = Value(128) /\ out.flops = Value(33))

C2_Witness ==
    /\ pc = "read" /\ cls = "Mean" /\ sub = 0
    /\ out = [elems |-> 32, bytes |-> Value(128), flops |-> Value(33)]

\* C3: a Norm built from such a record reports elems = product of S; at
\* subLevel 0 bytes = elems * width and flops = 2 * elems + 1; at any other
\* subLevel bytes and flops are both 0.
C3_NormMetrics ==
    (TensorOperand /\ cls = "Norm") =>
        LET S == Dims(OperandDesc["shape"])
            w == ByteWidth[OperandDesc["dtype"].s]
        IN  /\ out.elems = ProdOf(S)
            /\ sub = 0 => (out.bytes = Value(ProdOf(S) * w) /\ out.flops = Value(2 * ProdOf(S) + 1))
            /\ sub # 0 => (out.bytes = Value(0) /\ out.flops = Value(0))
            /\ (S = <<10>> /\ w = 2 /\ sub = 0) =>
                    (out.elems = 10 /\ out.bytes = Value(20) /\ out.flops = Value(21))

C3_Witness ==
    /\ pc = "read" /\ cls = "Norm" /\ sub # 0 /\ out.elems = 10
    /\ out.bytes = Value(0) /\ out.flops = Value(0)

\* The record names an operator or a module the class does not own.
Mismatched ==
    /\ marker.err = "none"
    /\ \/ marker.op # StrV(OwnOp[cls])
       \/ marker.mod \notin {StrV("torch"), StrV("Tensor")}

\* C4: constructing Mean, Sum or Norm from a record whose operator is not
\* the class's own or whose module is neither torch nor Tensor fails on the
\* assertion, whatever the arguments and subLevel: there is no instance and
\* no metric is read.
C4_MismatchFails ==
    (pc \in {"built", "read"} /\ Mismatched) =>
        (obj.err = "AssertionError" /\ pc = "built" /\ out = NoOut /\ ~ENABLED ReadMetrics)

C4_Witness ==
    /\ pc = "built" /\ Mismatched /\ obj.err = "AssertionError"
    /\ marker.mod = StrV("torch") /\ call.args # <<>> /\ call.args[1] = T48

\* The operand the stated rule selects: the first unnamed argument, or,
\* when there is none, the argument named "input".
RuleOperand(args) ==
    IF Named(args, "") # {} THEN Min(Named(args, ""))
    ELSE IF Named(args, "input") # {} THEN Min(Named(args, "input"))
    ELSE 0

\* C5: in Mean, Sum and Norm the operand is the first unnamed argument, or
\* the argument named "input" when the operand was passed by keyword; a
\* named argument other than "input" is never the operand.
C5_OperandRule ==
    (pc \in {"built", "read"} /\ obj.err = "none") =>
        /\ OperandDesc["name"] \in {StrV(""), StrV("input")}
        /\ Operand(cls, marker.args).k = RuleOperand(marker.args)

\* The descriptor argMarker gives for the zero-dimensional tensor T0.
ZeroDimDesc(name) == scalar(T0.data[1], name)

\* The operand, which the class selects as the rule does, is the descriptor
\* of a zero-dimensional tensor.
ZeroDimOperand ==
    /\ marker.err = "none" /\ ~Mismatched
    /\ Operand(cls, marker.args).err = "none"
    /\ Operand(cls, marker.args).k = RuleOperand(marker.args)
    /\ OperandDesc = ZeroDimDesc(OperandDesc["name"].s)

\* C6: a zero-dimensional tensor operand is recorded by argMarker as a
\* scalar descriptor (type name and value, no shape or dtype), and Mean, Sum
\* and Norm built from such a record construct and report elems() = 1.
C6_ZeroDimScalar ==
    /\ pc # "call" =>
          \A k \in 1..Len(call.args) :
              call.args[k] = T0 =>
                  (text.args[k] = [key \in {"name", "type", "value"} |->
                        Repr(ZeroDimDesc("")[key])])
    /\ (pc \in {"built", "read"} /\ ZeroDimOperand) =>
          /\ DOMAIN OperandDesc = {"name", "type", "value"}
          /\ obj.err = "none"
          /\ numElems(obj.shape) = 1
          /\ pc = "read" => out.elems = 1

----------------------------------------------------------------------------
(* Encoding and decoding of a record, over every kind of argument          *)
(* argMarker describes.                                                    *)

WideValues ==
    {IntV(2), FloatV("0.5"), FloatV("inf"), FloatV("-inf"), FloatV("nan"),
     BoolV("True"), NoneV, StrV("fro"),
     T48, T0, NdarrayV(<<3>>, <<"float64">>),
     ListV(<<IntV(0), IntV(1)>>), TupleV(<<>>),
     ListV(<<T48, T10>>), ListV(<<FloatV("inf"), FloatV("0.5")>>)}

InitMarker ==
    /\ pc = "call"
    /\ cls \in Classes
    /\ call \in [mod : {"torch", "Tensor"}, op : {OwnOp[cls]},
                 args : SeqsUpTo(WideValues, MaxPos),
                 kwargs : Kwargs(KwNames, Values, MaxKw)]
    /\ sub = 0
    /\ text = NoText
    /\ marker = NoMarker
    /\ obj = NoObj
    /\ out = NoOut
    /\ NvtxInit /\ benchmark = FALSE

SpecMarker == InitMarker /\ [][Next]_vars

\* C7: evaluating the text argMarker returned gives a record with the
\* call's module name and operator name and one descriptor per argument in
\* call order: the positional arguments under the empty name, then the
\* keyword arguments each under its keyword.
C7_RoundTrip ==
    (pc \in {"built", "read"}) =>
        /\ marker.err = "none"
        /\ marker.mod = StrV(call.mod)
        /\ marker.op = StrV(call.op)
        /\ Len(marker.args) = Len(call.args) + Len(call.kwargs)
        /\ \A k \in 1..Len(call.args) : marker.args[k]["name"] = StrV("")
        /\ \A k \in 1..Len(call.kwargs) :
                marker.args[Len(call.args) + k]["name"] = StrV(call.kwargs[k][1])

----------------------------------------------------------------------------
(* The patched functions of nvmarker.py at run time: one python thread,    *)
(* its call stack and its stack of open NVTX ranges.  The original         *)
(* functions are torch's: a builtin returns or raises; python code (a      *)
(* forward, a backward hook, a dataset's __getitem__) may call further     *)
(* patched functions and handle the exceptions they raise.                 *)

Frame(fn, id, at, s, leaf, d0) ==
    [fn |-> fn, id |-> id, pc |-> at, s |-> s, leaf |-> leaf, d0 |-> d0,
     add_nvtx |-> FALSE, bm |-> FALSE]

Range(f, kind) == [owner |-> f.id, kind |-> kind]

Top == stack[Len(stack)]
SetTop(f) == [stack EXCEPT ![Len(stack)] = f]
At(f, at) == [f EXCEPT !.pc = at]
PopFrame == SubSeq(stack, 1, Len(stack) - 1)

\* nvtx.range_push(msg) and nvtx.range_pop()
range_push(ranges, msg) == Append(ranges, msg)
range_pop(ranges) == IF ranges = <<>> THEN <<>> ELSE SubSeq(ranges, 1, Len(ranges) - 1)

Running(fn, at) == ~raising /\ stack # <<>> /\ Top.fn = fn /\ Top.pc = at

\* python code that is not this module's: the script, or the body of an
\* original function written in python, or the underlying iterator
Body(f) ==
    \/ f.fn = "wrapper_func" /\ f.pc = "orig" /\ ~f.leaf
    \/ f.fn = "new_iter" /\ f.pc = "next"

InBody == ~raising /\ (stack = <<>> \/ (stack # <<>> /\ Body(Top)))

\* a function replaced by add_wrapper is called: s is whether its module
\* has extra_repr, leaf whether the original is a builtin
CallWrapped ==
    /\ InBody
    /\ ncalls < MaxCalls
    /\ Len(stack) < MaxDepth
    /\ \E s \in BOOLEAN, leaf \in BOOLEAN :
          stack' = Append(stack, Frame("wrapper_func", ncalls + 1, "push_trace", s, leaf, Len(nvtx)))
    /\ ncalls' = ncalls + 1
    /\ UNCHANGED <<nvtx, raising, reported, benchmark, gen, pushed, pvars>>

\* nvtx.range_push(traceMarker())
WPushTrace ==
    /\ Running("wrapper_func", "push_trace")
    /\ nvtx' = range_push(nvtx, Range(Top, "trace"))
    /\ stack' = SetTop(At(Top, IF Top.s THEN "push_mod" ELSE "push_arg"))
    /\ UNCHANGED <<raising, reported, benchmark, gen, ncalls, pushed, pvars>>

\* if s: nvtx.range_push(modMarker(mod, fn_name, args))
WPushMod ==
    /\ Running("wrapper_func", "push_mod")
    /\ nvtx' = range_push(nvtx, Range(Top, "mod"))
    /\ stack' = SetTop(At(Top, "push_arg"))
    /\ UNCHANGED <<raising, reported, benchmark, gen, ncalls, pushed, pvars>>

\* nvtx.range_push(argMarker(mod, fn_name, args, kwargs))
WPushArg ==
    /\ Running("wrapper_func", "push_arg")
    /\ nvtx' = range_push(nvtx, Range(Top, "arg"))
    /\ stack' = SetTop(At(Top, "orig"))
    /\ UNCHANGED <<raising, reported, benchmark, gen, ncalls, pushed, pvars>>

\* result = func(*args, **kwargs) returns
OrigReturn ==
    /\ Running("wrapper_func", "orig")
    /\ stack' = SetTop(At(Top, "pop_arg"))
    /\ UNCHANGED <<nvtx, raising, reported, benchmark, gen, ncalls, pushed, pvars>>

\* func(*args, **kwargs) raises: wrapper_func is left at line 166
OrigRaise ==
    /\ Running("wrapper_func", "orig")
    /\ stack' = PopFrame
    /\ raising' = TRUE
    /\ UNCHANGED <<nvtx, reported, benchmark, gen, ncalls, pushed, pvars>>

\* nvtx.range_pop() for the argument marker
WPopArg ==
    /\ Running("wrapper_func", "pop_arg")
    /\ nvtx' = range_pop(nvtx)
    /\ stack' = SetTop(At(Top, IF Top.s THEN "pop_mod" ELSE "pop_trace"))
    /\ UNCHANGED <<raising, reported, benchmark, gen, ncalls, pushed, pvars>>

\* if s: nvtx.range_pop()
WPopMod ==
    /\ Running("wrapper_func", "pop_mod")
    /\ nvtx' = range_pop(nvtx)
    /\ stack' = SetTop(At(Top, "pop_trace"))
    /\ UNCHANGED <<raising, reported, benchmark, gen, ncalls, pushed, pvars>>

\* nvtx.range_pop() for the trace marker
WPopTrace ==
    /\ Running("wrapper_func", "pop_trace")
    /\ nvtx' = range_pop(nvtx)
    /\ stack' = SetTop(At(Top, "ret"))
    /\ UNCHANGED <<raising, reported, benchmark, gen, ncalls, pushed, pvars>>

\* return result
WReturn ==
    /\ Running("wrapper_func", "ret")
    /\ stack' = PopFrame
    /\ UNCHANGED <<nvtx, raising, reported, benchmark, gen, ncalls, pushed, pvars>>

\* the exception leaves the frame it reached; a generator it leaves is finished
Propagate ==
    /\ raising
    /\ stack # <<>>
    /\ stack' = PopFrame
    /\ gen' = IF Top.fn = "new_iter" THEN [gen EXCEPT !.state = "failed"] ELSE gen
    /\ UNCHANGED <<nvtx, raising, reported, benchmark, ncalls, pushed, pvars>>

\* python code handles the exception (try/except around the call)
Catch ==
    /\ raising
    /\ stack = <<>> \/ (stack # <<>> /\ Body(Top))
    /\ raising' = FALSE
    /\ UNCHANGED <<nvtx, stack, reported, benchmark, gen, ncalls, pushed, pvars>>

\* torch.backends.cudnn.benchmark is assigned
SetBenchmark ==
    /\ InBody
    /\ benchmark' = ~benchmark
    /\ UNCHANGED <<nvtx, stack, raising, reported, gen, ncalls, pushed, pvars>>

\* one of the conv functions patch_model_configs replaced is called
BenchCall ==
    /\ InBody
    /\ ncalls + 2 <= MaxCalls
    /\ Len(stack) + 2 <= MaxDepth
    /\ stack' = Append(stack,
            Frame("always_benchmark_wrapper", ncalls + 1, "test", FALSE, FALSE, Len(nvtx)))
    /\ ncalls' = ncalls + 1
    /\ UNCHANGED <<nvtx, raising, reported, benchmark, gen, pushed, pvars>>

\* the flag left as it was: the range is pushed, the flag not set
BenchTest_FlagNotSet ==
    /\ Running("always_benchmark_wrapper", "test")
    /\ LET add_nvtx == ~benchmark /\ ~reported
           f == [Top EXCEPT !.add_nvtx = add_nvtx, !.bm = benchmark, !.pc = "call_old"]
       IN  /\ stack' = SetTop(f)
           /\ nvtx' = IF add_nvtx THEN range_push(nvtx, Range(Top, "cudnn")) ELSE nvtx
           /\ pushed' = IF add_nvtx THEN pushed + 1 ELSE pushed
    /\ UNCHANGED <<reported, raising, benchmark, gen, ncalls, pvars>>

\* add_nvtx = not benchmark and not reported; if add_nvtx: set the flag and
\* push the model_config range
BenchTest ==
    /\ Running("always_benchmark_wrapper", "test")
    /\ LET add_nvtx == ~benchmark /\ ~reported
           f == [Top EXCEPT !.add_nvtx = add_nvtx, !.bm = benchmark, !.pc = "call_old"]
       IN  /\ stack' = SetTop(f)
           /\ reported' = IF add_nvtx THEN TRUE ELSE reported
           /\ nvtx' = IF add_nvtx THEN range_push(nvtx, Range(Top, "cudnn")) ELSE nvtx
           /\ pushed' = IF add_nvtx THEN pushed + 1 ELSE pushed
    /\ UNCHANGED <<raising, benchmark, gen, ncalls, pvars>>

\* result = old_fn(*args, **kwargs): old_fn is the wrapper_func that
\* patch_torch_classes put around the builtin of torch.nn.functional
BenchCallOld ==
    /\ Running("always_benchmark_wrapper", "call_old")
    /\ stack' = Append(SetTop(At(Top, "in_old")),
            Frame("wrapper_func", ncalls + 1, "push_trace", FALSE, TRUE, Len(nvtx)))
    /\ ncalls' = ncalls + 1
    /\ UNCHANGED <<nvtx, raising, reported, benchmark, gen, pushed, pvars>>

\* old_fn returned; if add_nvtx: nvtx.range_pop()
BenchPop ==
    /\ Running("always_benchmark_wrapper", "in_old")
    /\ nvtx' = IF Top.add_nvtx THEN range_pop(nvtx) ELSE nvtx
    /\ stack' = SetTop(At(Top, "ret"))
    /\ UNCHANGED <<raising, reported, benchmark, gen, ncalls, pushed, pvars>>

\* return result
BenchReturn ==
    /\ Running("always_benchmark_wrapper", "ret")
    /\ stack' = PopFrame
    /\ UNCHANGED <<nvtx, raising, reported, benchmark, gen, ncalls, pushed, pvars>>

\* the script calls iter(loader): new_iter returns its generator, not yet run
IterCreate ==
    /\ ~raising /\ stack = <<>>
    /\ gen.state \in {"none", "done", "closed", "failed"}
    /\ ncalls < MaxCalls
    /\ gen' = [state |-> "created", id |-> ncalls + 1, d0 |-> 0, items |-> 0]
    /\ ncalls' = ncalls + 1
    /\ UNCHANGED <<nvtx, stack, raising, reported, benchmark, pushed, pvars>>

\* the script asks for the next item: the generator starts or resumes
GenNext ==
    /\ ~raising /\ stack = <<>>
    /\ gen.state \in {"created", "suspended"}
    /\ stack' = <<Frame("new_iter", gen.id, "push_trace", FALSE, FALSE, Len(nvtx))>>
    /\ gen' = [gen EXCEPT !.state = "running",
                          !.d0 = IF gen.state = "created" THEN Len(nvtx) ELSE @]
    /\ UNCHANGED <<nvtx, raising, reported, benchmark, ncalls, pushed, pvars>>

\* nvtx.range_push(traceMarker()), lines 305 and 322
GPushTrace ==
    /\ Running("new_iter", "push_trace")
    /\ nvtx' = range_push(nvtx, Range(Top, "trace"))
    /\ stack' = SetTop(At(Top, "push_arg"))
    /\ UNCHANGED <<raising, reported, benchmark, gen, ncalls, pushed, pvars>>

\* nvtx.range_push(argMarker(mod, "DataLoader", args, kwargs)), lines 309 and 326
GPushArg ==
    /\ Running("new_iter", "push_arg")
    /\ nvtx' = range_push(nvtx, Range(Top, "arg"))
    /\ stack' = SetTop(At(Top, "next"))
    /\ UNCHANGED <<raising, reported, benchmark, gen, ncalls, pushed, pvars>>

\* old_iter gives the next item
GItem ==
    /\ Running("new_iter", "next")
    /\ gen.items < MaxItems
    /\ gen' = [gen EXCEPT !.items = @ + 1]
    /\ stack' = SetTop(At(Top, "pop1"))
    /\ UNCHANGED <<nvtx, raising, reported, benchmark, ncalls, pushed, pvars>>

\* old_iter is exhausted: the for loop ends
GExhaust ==
    /\ Running("new_iter", "next")
    /\ stack' = SetTop(At(Top, "end_pop1"))
    /\ UNCHANGED <<nvtx, raising, reported, benchmark, gen, ncalls, pushed, pvars>>

\* old_iter raises
GRaise ==
    /\ Running("new_iter", "next")
    /\ raising' = TRUE
    /\ UNCHANGED <<nvtx, stack, reported, benchmark, gen, ncalls, pushed, pvars>>

\* the first nvtx.range_pop() of the loop body (line 314) or after it (line 329)
GPop1 ==
    /\ Running("new_iter", "pop1") \/ Running("new_iter", "end_pop1")
    /\ nvtx' = range_pop(nvtx)
    /\ stack' = SetTop(At(Top, IF Top.pc = "pop1" THEN "pop2" ELSE "end_pop2"))
    /\ UNCHANGED <<raising, reported, benchmark, gen, ncalls, pushed, pvars>>

\* the second nvtx.range_pop() (line 317 or line 330)
GPop2 ==
    /\ Running("new_iter", "pop2") \/ Running("new_iter", "end_pop2")
    /\ nvtx' = range_pop(nvtx)
    /\ stack' = SetTop(At(Top, IF Top.pc = "pop2" THEN "yield" ELSE "stop"))
    /\ UNCHANGED <<raising, reported, benchmark, gen, ncalls, pushed, pvars>>

\* yield x: the generator is suspended and the script runs
GYield ==
    /\ Running("new_iter", "yield")
    /\ stack' = PopFrame
    /\ gen' = [gen EXCEPT !.state = "suspended"]
    /\ UNCHANGED <<nvtx, raising, reported, benchmark, ncalls, pushed, pvars>>

\* the generator returns: StopIteration ends the script's loop
GStop ==
    /\ Running("new_iter", "stop")
    /\ stack' = PopFrame
    /\ gen' = [gen EXCEPT !.state = "done"]
    /\ UNCHANGED <<nvtx, raising, reported, benchmark, ncalls, pushed, pvars>>

\* the script leaves its loop early: the suspended generator is closed
GenClose ==
    /\ ~raising /\ stack = <<>>
    /\ gen.state \in {"created", "suspended"}
    /\ gen' = [gen EXCEPT !.state = "closed"]
    /\ UNCHANGED <<nvtx, stack, raising, reported, benchmark, ncalls, pushed, pvars>>

InitNvtx ==
    /\ pc = "idle"
    /\ call = [mod |-> "torch", op |-> "sum", args |-> <<>>, kwargs |-> <<>>]
    /\ cls = "Sum"
    /\ sub = 0
    /\ text = NoText
    /\ marker = NoMarker
    /\ obj = NoObj
    /\ out = NoOut
    /\ NvtxInit

NextNvtx ==
    \/ CallWrapped \/ WPushTrace \/ WPushMod \/ WPushArg \/ OrigReturn \/ OrigRaise
    \/ WPopArg \/ WPopMod \/ WPopTrace \/ WReturn
    \/ Propagate \/ Catch \/ SetBenchmark
    \/ BenchCall \/ BenchTest \/ BenchCallOld \/ BenchPop \/ BenchReturn
    \/ IterCreate \/ GenNext \/ GPushTrace \/ GPushArg \/ GItem \/ GExhaust \/ GRaise
    \/ GPop1 \/ GPop2 \/ GYield \/ GStop \/ GenClose

SpecNvtx == InitNvtx /\ [][NextNvtx]_vars

----------------------------------------------------------------------------
(* Properties of the patched functions.                                    *)

Frames(fn) == {i \in 1..Len(stack) : stack[i].fn = fn}

\* the ranges of frame f that are open, bottom first
Own(id) == SelectSeq(nvtx, LAMBDA r : r.owner = id)

\* the ranges wrapper_func has open at each of its statements: trace, then
\* mod when the module has extra_repr, then arg; closed in reverse
WOpen(f) ==
    LET T == <<Range(f, "trace")>>
        M == IF f.s THEN <<Range(f, "mod")>> ELSE <<>>
        A == <<Range(f, "arg")>>
    IN  CASE f.pc = "push_trace" -> <<>>
          [] f.pc = "push_mod" -> T
          [] f.pc = "push_arg" -> T \o M
          [] f.pc \in {"orig", "pop_arg"} -> T \o M \o A
          [] f.pc = "pop_mod" -> T \o M
          [] f.pc = "pop_trace" -> T
          [] f.pc = "ret" -> <<>>

\* C8: in every call of wrapper_func whose original returns, nested calls
\* included, the trace, module (with extra_repr only) and argument ranges
\* are pushed in that order before the original is called and popped in
\* reverse after it, so that the ranges nest and the depth when the wrapper
\* returns is the depth when it was entered.
C8_WrapperBalanced ==
    \A i \in Frames("wrapper_func") :
        LET f == stack[i]
        IN  /\ f.pc = "orig" =>
                SubSeq(nvtx, f.d0 + 1, f.d0 + Len(WOpen(f))) = WOpen(f)
            /\ (i = Len(stack) /\ f.pc \in {"pop_arg", "pop_mod", "pop_trace", "ret"}) =>
                /\ Own(f.id) = WOpen(f)
                /\ Len(nvtx) = f.d0 + Len(WOpen(f))

\* C9: while the generator of the patched DataLoader.__iter__ is suspended
\* at its yield none of its ranges is open; while the underlying iterator
\* produces the next item exactly its trace and argument ranges are open;
\* when it is exhausted the depth is the depth before the first item was
\* asked for.  This for any number of items and for a consumer that stops
\* early.
C9_IterRanges ==
    /\ gen.state \in {"suspended", "closed", "done"} => Own(gen.id) = <<>>
    /\ \A i \in Frames("new_iter") :
          /\ stack[i].pc = "next" =>
                Own(gen.id) = <<Range(stack[i], "trace"), Range(stack[i], "arg")>>
          /\ (i = Len(stack) /\ stack[i].pc \in {"yield", "stop"}) => Own(gen.id) = <<>>
          /\ (i = Len(stack) /\ stack[i].pc = "stop") => Len(nvtx) = gen.d0

\* a call of always_benchmark_wrapper that has passed its test
Tested(f) == f.pc \in {"call_old", "in_old", "ret"}

\* In every state: the range was pushed at most once, and exactly when the
\* flag is set; a call that read benchmark as false finds the flag set after
\* its test; the call that pushed has its range open while the original
\* runs and closed when it returns; a call that read benchmark as true
\* pushed nothing.
C10_State ==
    /\ pushed <= 1
    /\ reported <=> (pushed = 1)
    /\ \A i \in Frames("always_benchmark_wrapper") :
          LET f == stack[i]
          IN  /\ (Tested(f) /\ ~f.bm) => reported
              /\ (Tested(f) /\ f.bm) => ~f.add_nvtx
              /\ (f.pc \in {"call_old", "in_old"} /\ f.add_nvtx) =>
                    (Len(nvtx) > f.d0 /\ nvtx[f.d0 + 1] = Range(f, "cudnn")
                        /\ Own(f.id) = <<Range(f, "cudnn")>>)
              /\ (f.pc \in {"call_old", "in_old"} /\ ~f.add_nvtx) => Own(f.id) = <<>>
              /\ f.pc = "ret" => (Own(f.id) = <<>> /\ Len(nvtx) = f.d0)

\* In every step: the flag is never reset; a range is pushed only with
\* benchmark false and the flag unset, and sets it; the test of a call made
\* while benchmark is true changes neither the ranges nor the flag.
C10_Step ==
    /\ reported => reported'
    /\ pushed' # pushed => (~benchmark /\ ~reported /\ reported' /\ pushed' = pushed + 1
                              /\ Len(nvtx') = Len(nvtx) + 1 /\ nvtx'[Len(nvtx')].kind = "cudnn")
    /\ (Running("always_benchmark_wrapper", "test") /\ benchmark) =>
            (nvtx' = nvtx /\ reported' = reported)
    /\ Len(SelectSeq(nvtx', LAMBDA r : r.kind = "cudnn"))
            > Len(SelectSeq(nvtx, LAMBDA r : r.kind = "cudnn")) => pushed' = pushed + 1

\* C10: a patched conv function executed while cudnn.benchmark is not true
\* emits the cudnn_benchmark_disabled range: on the first such execution the
\* range is pushed before the original runs and popped when that call
\* returns, and it is never pushed again, the flag being set; an execution
\* while benchmark is true pushes nothing and leaves the flag as it was.
C10_BenchmarkReported == []C10_State /\ [][C10_Step]_vars

C10_Witness ==
    /\ stack # <<>> /\ Top.fn = "always_benchmark_wrapper" /\ Top.pc = "ret"
    /\ ~Top.add_nvtx /\ ~Top.bm /\ ~benchmark /\ reported /\ pushed = 1

====
